---- MODULE Spec2Model ----
(***************************************************************************)
(* A model of the early-warning risk engine (src/api/risk_engine.py), the  *)
(* demo fixture (src/api/demo_data.py) and the request handlers that drive *)
(* the engine (src/api/main.py).                                           *)
(*                                                                         *)
(* Numbers.  A Python int is an Int.  A Python float is a binary floating  *)
(* point number: a pair <<m, e>> standing for m * 2^e, with either m = 0   *)
(* (zero) or 2^(Prec-1) <= m < 2^Prec; +infinity is the pair Inf.  Every   *)
(* arithmetic operation rounds its exact result to the nearest number of   *)
(* the format, ties to even, as IEEE 754 does.  The source's floats carry  *)
(* a 53 bit significand; the model carries Prec bits, so that the exact    *)
(* intermediate results fit the checker's integers.  The exponent is not   *)
(* bounded: no input of the model comes near the range where a double      *)
(* overflows or underflows.  A decimal literal d of the source is the      *)
(* float nearest to d, written F(n, k) for d = n / k.  All numbers of the  *)
(* program are >= 0, so the format carries no sign.                        *)
(***************************************************************************)
EXTENDS Integers, Sequences, FiniteSets, TLC

\* Width of the significand of the model's floats (the source's is 53).
Prec == 13

RECURSIVE Pow2(_)
Pow2(k) == IF k <= 0 THEN 1 ELSE 2 * Pow2(k - 1)

\* 2^(Prec-1) and 2^Prec: the bounds of a float's significand.
MinSig == Pow2(Prec - 1)
MaxSig == Pow2(Prec)

Zero == <<0, 0>>
\* +infinity: a pair that is no finite float (its first component is too large).
Inf == <<MaxSig, 0>>

IsInf(x) == x = Inf
IsZero(x) == x[1] = 0

\* The float nearest to (n / d) * 2^e, for integers n >= 0 and d > 0.
Norm[n \in Nat, d \in Nat, e \in Int] ==
    IF n = 0 THEN Zero
    ELSE IF n < d * MinSig THEN Norm[2 * n, d, e - 1]
    ELSE IF n >= d * MaxSig THEN Norm[n, 2 * d, e + 1]
    ELSE LET q == n \div d
             r == n % d
             up == (2 * r > d) \/ (2 * r = d /\ q % 2 = 1)
             m == IF up THEN q + 1 ELSE q
         IN  IF m = MaxSig THEN <<MinSig, e + 1>> ELSE <<m, e>>

\* A decimal literal n / k of the source, and an int converted to float.
F(n, k) == Norm[n, k, 0]
ToFloat(n) == Norm[n, 1, 0]

\* The float 2^k, for any integer k.
FPow2(k) == <<MinSig, k - (Prec - 1)>>

\* The float literals of the source.
F1 == ToFloat(1)
F2 == ToFloat(2)
F5 == ToFloat(5)
F0_4 == F(4, 10)
F0_5 == F(5, 10)
F0_6 == F(6, 10)
F0_7 == F(7, 10)
F0_8 == F(8, 10)
F0_75 == F(75, 100)
F0_85 == F(85, 100)

\* x < y and x <= y on floats.
FLt(x, y) ==
    IF IsInf(x) THEN FALSE
    ELSE IF IsInf(y) THEN TRUE
    ELSE IF IsZero(y) THEN FALSE
    ELSE IF IsZero(x) THEN TRUE
    ELSE x[2] < y[2] \/ (x[2] = y[2] /\ x[1] < y[1])
FLe(x, y) == x = y \/ FLt(x, y)
FGt(x, y) == FLt(y, x)

\* The floats: <<m, e>> for m * 2^e, and Inf.
Floats == Nat \X Int

\* x + y, x - y (for x >= y), x * y and x / y (y not zero), each rounded
\* once.
FAdd[x \in Floats, y \in Floats] ==
    IF IsInf(x) \/ IsInf(y) THEN Inf
    ELSE IF IsZero(x) THEN y
    ELSE IF IsZero(y) THEN x
    ELSE LET hi == IF x[2] >= y[2] THEN x ELSE y
             lo == IF x[2] >= y[2] THEN y ELSE x
             diff == hi[2] - lo[2]
         IN  IF diff >= Prec + 1 THEN hi
             ELSE Norm[hi[1] * Pow2(diff) + lo[1], 1, lo[2]]
FSub[x \in Floats, y \in Floats] ==
    IF IsZero(y) THEN x
    ELSE IF x = y THEN Zero
    ELSE LET diff == x[2] - y[2]
         IN  IF diff >= Prec + 2 THEN x
             ELSE IF diff >= 0 THEN Norm[x[1] * Pow2(diff) - y[1], 1, y[2]]
             ELSE Norm[x[1] - y[1] * Pow2(-diff), 1, x[2]]
FMul[x \in Floats, y \in Floats] ==
    IF IsZero(x) \/ IsZero(y) THEN Zero
    ELSE IF IsInf(x) \/ IsInf(y) THEN Inf
    ELSE Norm[x[1] * y[1], 1, x[2] + y[2]]
FDiv[x \in Floats, y \in Floats] ==
    IF IsInf(y) THEN Zero
    ELSE IF IsInf(x) THEN Inf
    ELSE IF IsZero(x) THEN Zero
    ELSE Norm[x[1], y[1], x[2] - y[2]]

(***************************************************************************)
(* The engine's data.                                                      *)
(***************************************************************************)

\* RiskEngine.feature_names, in the order __init__ lists them.
FeatureNames ==
    << "early_bet_count", "early_avg_bet", "early_std_bet",
       "early_loss_rate", "early_total_loss", "early_unique_days",
       "early_bets_per_day", "early_loss_gaps", "early_immediate_rebet_pct",
       "early_sessions_session_count", "early_sessions_avg_duration",
       "early_sessions_duration_cv", "early_deposits_deposit_count",
       "early_deposits_avg_deposit" >>

\* The default model_path of __init__, and the line _load_models prints.
ModelPath == "../models/dual_risk_models.pkl"
WarningLine == "Warning: Model file not found at ../models/dual_risk_models.pkl, using mock models"

\* The dict _create_mock_models returns, in insertion order.
MockModels ==
    << [window |-> "7_day", kind |-> "mock", threshold |-> F0_6],
       [window |-> "30_day", kind |-> "mock", threshold |-> F0_5] >>

\* What pickle.load returns for a well-formed artifact: one trained
\* classifier per window.  The artifact is not part of the sources; its
\* classifiers stand for any deterministic function of the feature vector.
TrainedModels ==
    << [window |-> "7_day", kind |-> "trained", threshold |-> F0_6],
       [window |-> "30_day", kind |-> "trained", threshold |-> F0_5] >>

\* The states of the file at model_path when the engine is constructed.
Artifacts == {"missing", "valid", "corrupt"}

Windows(ms) == {ms[i].window : i \in DOMAIN ms}

(***************************************************************************)
(* The fallback model's random numbers.  np.random is one generator for    *)
(* the whole process: seed(k) sets its state from k, and every draw reads  *)
(* the state and advances it.  The generator's arithmetic is numpy's, not  *)
(* the repository's; a small congruential generator stands for it.  hash   *)
(* of a str is keyed by a value drawn once per process (hashSalt).         *)
(***************************************************************************)

\* The modulus of predict_proba's seed.
HashRange == 100

\* str(X[0]): numpy prints every element with 8 significant digits, which
\* separates any two floats of Prec bits; the text of a vector is the
\* sequence of its elements' digits, here each element's <<m, e>>.
StrOf(X) == [i \in DOMAIN X |-> <<X[i][1], X[i][2]>>]

\* hash(s) for the text s of a vector, under the process's hash key.
HashFrom[s \in Seq(Floats), i \in Nat, h \in Nat] ==
    IF i > Len(s) THEN h
    ELSE HashFrom[s, i + 1, (h * 31 + s[i][1] + 7 * (s[i][2] % 64) + i) % 1000003]
Hash(salt, s) == HashFrom[s, 1, salt + 17]

\* np.random.seed(k): the generator's state after seeding with k.
RngSeed(k) == k
\* The generator's state after one draw.
RngStep(g) == (g * 421 + 137) % 1009
\* np.random.beta(2, 2, 1)[0] read off the state after the draw: a
\* probability strictly between 0 and 1.
BetaOf(g) == F(1 + (g % 999), 1000)

\* MockModel.predict_proba in its two steps: seed the process-wide
\* generator from the input, then draw from it.
MockSeed(salt, X) == RngSeed(Hash(salt, StrOf(X)) % HashRange)
MockDraw(g) ==
    LET g2 == RngStep(g)
        prob == BetaOf(g2)
    IN  [rng |-> g2, proba |-> <<FSub[F1, prob], prob>>]

\* A trained classifier's predict_proba: a fixed function of the window's
\* classifier and the feature vector, with no other state.
TrainedProba(window, X) ==
    LET h == Hash(IF window = "7_day" THEN 7 ELSE 30, StrOf(X))
        prob == F(h % 1001, 1000)
    IN  <<FSub[F1, prob], prob>>

(***************************************************************************)
(* RiskEngine.prepare_features                                             *)
(***************************************************************************)

\* The placeholder of 'early_sessions_avg_duration'.
SessionAvgDuration == 45

IntMax(a, b) == IF a >= b THEN a ELSE b

\* Mutant: 1 / (1 + gap) / 5, the division by 5 outside the parentheses.
ImmediateRebetPct_misparenthesised(gap) == FDiv[FDiv[F1, FAdd[F1, gap]], F5]

\* 1 / (1 + gap / 5)
ImmediateRebetPct(gap) == FDiv[F1, FAdd[F1, FDiv[gap, F5]]]

\* Mutant: 'early_std_bet' without its factor 0.5.
FeatureDict_std_is_avg(b) ==
    [ early_bet_count |-> ToFloat(b.total_bets),
      early_avg_bet |-> b.avg_bet_amount,
      early_std_bet |-> b.avg_bet_amount,
      early_loss_rate |-> b.loss_rate,
      early_total_loss |-> b.total_loss_amount,
      early_unique_days |-> ToFloat(b.betting_days),
      early_bets_per_day |-> Norm[b.total_bets, IntMax(b.betting_days, 1), 0],
      early_loss_gaps |-> b.median_loss_gap_minutes,
      early_immediate_rebet_pct |-> ImmediateRebetPct(b.median_loss_gap_minutes),
      early_sessions_session_count |-> ToFloat(b.betting_days * 2),
      early_sessions_avg_duration |-> ToFloat(SessionAvgDuration),
      early_sessions_duration_cv |-> b.session_variance,
      early_deposits_deposit_count |-> ToFloat(b.total_deposits),
      early_deposits_avg_deposit |-> b.avg_deposit ]

\* The dict `features` of prepare_features: name -> value.
FeatureDict(b) ==
    [ early_bet_count |-> ToFloat(b.total_bets),
      early_avg_bet |-> b.avg_bet_amount,
      early_std_bet |-> FMul[b.avg_bet_amount, F0_5],
      early_loss_rate |-> b.loss_rate,
      early_total_loss |-> b.total_loss_amount,
      early_unique_days |-> ToFloat(b.betting_days),
      early_bets_per_day |-> Norm[b.total_bets, IntMax(b.betting_days, 1), 0],
      early_loss_gaps |-> b.median_loss_gap_minutes,
      early_immediate_rebet_pct |-> ImmediateRebetPct(b.median_loss_gap_minutes),
      early_sessions_session_count |-> ToFloat(b.betting_days * 2),
      early_sessions_avg_duration |-> ToFloat(SessionAvgDuration),
      early_sessions_duration_cv |-> b.session_variance,
      early_deposits_deposit_count |-> ToFloat(b.total_deposits),
      early_deposits_avg_deposit |-> b.avg_deposit ]

\* Mutant: features[f] in place of features.get(f, 0); the pair <<-1, -1>>
\* marks the KeyError of a name the dict does not hold.
DictGet_subscript(d, f, default) == IF f \in DOMAIN d THEN d[f] ELSE <<-1, -1>>

\* features.get(f, 0)
DictGet(d, f, default) == IF f \in DOMAIN d THEN d[f] ELSE default

\* np.array([[features.get(f, 0) for f in self.feature_names]])[0]
prepare_features(names, b) ==
    LET features == FeatureDict(b)
    IN  [i \in DOMAIN names |-> DictGet(features, names[i], Zero)]

(***************************************************************************)
(* RiskEngine.predict_risk, get_risk_level, get_intervention_strategy      *)
(***************************************************************************)

\* The loop of predict_risk over self.models.items(), from model i on: the
\* scores collected and the generator's state after the loop.  A call on
\* one thread runs the loop without interruption.
RECURSIVE ScoreLoop(_, _, _, _, _, _)
ScoreLoop(ms, i, X, salt, g, acc) ==
    IF i > Len(ms) THEN [scores |-> acc, rng |-> g]
    ELSE IF ms[i].kind = "mock"
         THEN CHOOSE r \in
                  { ScoreLoop(ms, i + 1, X, salt, d.rng, (ms[i].window :> d.proba[2]) @@ acc) :
                      d \in {MockDraw(MockSeed(salt, X))} } : TRUE
         ELSE ScoreLoop(ms, i + 1, X, salt, g,
                        (ms[i].window :> TrainedProba(ms[i].window, X)[2]) @@ acc)

\* Mutant: the deposit rule with >= in place of >.
RiskFactors_inclusive(b) ==
    LET f1 == IF FLt(b.median_loss_gap_minutes, F5)
              THEN <<"Immediate loss chasing behavior">> ELSE <<>>
        f2 == IF b.total_deposits >= 20
              THEN <<"High deposit frequency">> ELSE <<>>
        f3 == IF FGt(b.late_night_percentage, F0_4)
              THEN <<"Excessive late-night gambling">> ELSE <<>>
        f4 == IF FGt(b.session_variance, F2)
              THEN <<"Erratic session patterns">> ELSE <<>>
        f5 == IF FGt(b.loss_rate, F0_8)
              THEN <<"Very high loss rate">> ELSE <<>>
    IN  f1 \o f2 \o f3 \o f4 \o f5

\* The risk-factor rules of predict_risk, on the raw behavior.
RiskFactors(b) ==
    LET f1 == IF FLt(b.median_loss_gap_minutes, F5)
              THEN <<"Immediate loss chasing behavior">> ELSE <<>>
        f2 == IF b.total_deposits > 20
              THEN <<"High deposit frequency">> ELSE <<>>
        f3 == IF FGt(b.late_night_percentage, F0_4)
              THEN <<"Excessive late-night gambling">> ELSE <<>>
        f4 == IF FGt(b.session_variance, F2)
              THEN <<"Erratic session patterns">> ELSE <<>>
        f5 == IF FGt(b.loss_rate, F0_8)
              THEN <<"Very high loss rate">> ELSE <<>>
    IN  f1 \o f2 \o f3 \o f4 \o f5

\* predict_risk: its return value (scores, factors) and the generator's
\* state when it returns.
predict_risk(ms, names, salt, g, b) ==
    CHOOSE r \in
        { [risk_scores |-> l.scores, risk_factors |-> RiskFactors(b), rng |-> l.rng] :
            l \in { ScoreLoop(ms, 1, features, salt, g, <<>>) :
                      features \in {prepare_features(names, b)} } } : TRUE

\* max(risk_scores.values()) of a non-empty dict.
MaxScore(scores) ==
    CHOOSE v \in {scores[w] : w \in DOMAIN scores} :
        \A w \in DOMAIN scores : FLe(scores[w], v)

\* Mutant: the MEDIUM threshold with >= in place of >.
get_risk_level_inclusive(scores) ==
    LET max_score == MaxScore(scores)
    IN  IF FGt(max_score, F0_7) THEN "HIGH"
        ELSE IF FLe(F0_4, max_score) THEN "MEDIUM"
        ELSE "LOW"

get_risk_level(scores) ==
    LET max_score == MaxScore(scores)
    IN  IF FGt(max_score, F0_7) THEN "HIGH"
        ELSE IF FGt(max_score, F0_4) THEN "MEDIUM"
        ELSE "LOW"

ImmediateCrisis ==
    [ pattern |-> "IMMEDIATE_CRISIS", urgency |-> "URGENT",
      description |-> "Both short and long-term risk indicators show immediate danger",
      actions |-> << "Immediate deposit limit", "Mandatory cooling period",
                     "Direct phone contact", "Emergency resources" >> ]
SlowBurn ==
    [ pattern |-> "SLOW_BURN", urgency |-> "PREVENTIVE",
      description |-> "Current behavior seems controlled but shows escalation trajectory",
      actions |-> << "Educational emails", "Voluntary limit suggestions",
                     "Progress tracking tools", "Scheduled check-ins" >> ]
ModerateRisk ==
    [ pattern |-> "MODERATE_RISK", urgency |-> "MONITOR",
      description |-> "Showing concerning patterns that need monitoring",
      actions |-> << "In-app warnings", "Session reminders", "Self-assessment tools" >> ]
Controlled ==
    [ pattern |-> "CONTROLLED", urgency |-> "STANDARD",
      description |-> "Gambling behavior appears well-controlled",
      actions |-> << "Continue monitoring", "Positive reinforcement" >> ]

\* Mutant: the MODERATE_RISK rule tried before the SLOW_BURN rule.
get_intervention_strategy_reordered(risk_7day, risk_30day) ==
    IF FGt(risk_7day, F0_7) /\ FGt(risk_30day, F0_7) THEN ImmediateCrisis
    ELSE IF (FLe(F0_4, risk_7day) /\ FLe(risk_7day, F0_7))
            \/ (FLe(F0_4, risk_30day) /\ FLe(risk_30day, F0_7))
         THEN ModerateRisk
    ELSE IF FLt(risk_7day, F0_4) /\ FGt(risk_30day, F0_6) THEN SlowBurn
    ELSE Controlled

get_intervention_strategy(risk_7day, risk_30day) ==
    IF FGt(risk_7day, F0_7) /\ FGt(risk_30day, F0_7) THEN ImmediateCrisis
    ELSE IF FLt(risk_7day, F0_4) /\ FGt(risk_30day, F0_6) THEN SlowBurn
    ELSE IF (FLe(F0_4, risk_7day) /\ FLe(risk_7day, F0_7))
            \/ (FLe(F0_4, risk_30day) /\ FLe(risk_30day, F0_7))
         THEN ModerateRisk
    ELSE Controlled

(***************************************************************************)
(* demo_data.py                                                            *)
(***************************************************************************)

DEMO_USERS ==
    (12345 :> [ behavior |->
                  [ total_bets |-> 287, avg_bet_amount |-> F(154325, 100),
                    total_deposits |-> 23, avg_deposit |-> F(2500, 1),
                    loss_rate |-> F(82, 100), median_loss_gap_minutes |-> F(23, 10),
                    late_night_percentage |-> F(45, 100), session_variance |-> F(32, 10),
                    total_loss_amount |-> F(4523050, 100), betting_days |-> 14 ],
                risk_7day |-> F(847, 1000), risk_30day |-> F(721, 1000) ])
    @@
    (67890 :> [ behavior |->
                  [ total_bets |-> 45, avg_bet_amount |-> F(250, 1),
                    total_deposits |-> 3, avg_deposit |-> F(500, 1),
                    loss_rate |-> F(55, 100), median_loss_gap_minutes |-> F(180, 1),
                    late_night_percentage |-> F(10, 100), session_variance |-> F0_8,
                    total_loss_amount |-> F(2500, 1), betting_days |-> 8 ],
                risk_7day |-> F(235, 1000), risk_30day |-> F(712, 1000) ])
    @@
    (23456 :> [ behavior |->
                  [ total_bets |-> 95, avg_bet_amount |-> F(450, 1),
                    total_deposits |-> 8, avg_deposit |-> F(1000, 1),
                    loss_rate |-> F(65, 100), median_loss_gap_minutes |-> F(455, 10),
                    late_night_percentage |-> F(25, 100), session_variance |-> F(18, 10),
                    total_loss_amount |-> F(8500, 1), betting_days |-> 10 ],
                risk_7day |-> F(432, 1000), risk_30day |-> F(389, 1000) ])
    @@
    (34567 :> [ behavior |->
                  [ total_bets |-> 28, avg_bet_amount |-> F(100, 1),
                    total_deposits |-> 2, avg_deposit |-> F(500, 1),
                    loss_rate |-> F(54, 100), median_loss_gap_minutes |-> F(480, 1),
                    late_night_percentage |-> F(10, 100), session_variance |-> F0_5,
                    total_loss_amount |-> F(1200, 1), betting_days |-> 7 ],
                risk_7day |-> F(125, 1000), risk_30day |-> F(98, 1000) ])

\* DEMO_USERS.get(user_id, None)
None == [none |-> TRUE]
get_demo_user(user_id) ==
    IF user_id \in DOMAIN DEMO_USERS THEN DEMO_USERS[user_id] ELSE None

(***************************************************************************)
(* main.py: assess_user_risk and the demo endpoints                        *)
(***************************************************************************)

\* round(x, 3): the float nearest to k / 1000, k the integer nearest to
\* 1000 * x (ties to even).
Round3(x) ==
    IF IsZero(x) THEN Zero
    ELSE IF x[2] >= 0 THEN F(1000 * x[1] * Pow2(x[2]), 1000)
    ELSE IF -x[2] > Prec + 12 THEN Zero
    ELSE LET n == 1000 * x[1]
             d == Pow2(-x[2])
             q == n \div d
             r == n % d
             up == (2 * r > d) \/ (2 * r = d /\ q % 2 = 1)
         IN  F(IF up THEN q + 1 ELSE q, 1000)

InUnit(x) == FLe(Zero, x) /\ FLe(x, F1)

\* The field constraints of models.py that a response must satisfy.
ValidBehaviorSummary(b) == InUnit(b.loss_rate) /\ InUnit(b.late_night_percentage)
ValidRiskPrediction(p) == InUnit(p.risk_score) /\ InUnit(p.confidence)
RiskLevels == {"LOW", "MEDIUM", "HIGH", "CRITICAL"}

NotFoundDetail(user_id) ==
    << "User ", user_id,
       " not found. Try demo users: 12345 (high risk), 23456 (medium risk), 34567 (low risk)" >>

\* assess_user_risk: the response, the engine methods it called, in order,
\* and the generator's state when it returns.  (assessment_date, the clock,
\* is left out.)
assess_user_risk(ms, names, salt, g, user_id) ==
    LET demo_data == get_demo_user(user_id)
    IN  IF demo_data = None
        THEN [ status |-> 404, detail |-> NotFoundDetail(user_id),
               calls |-> <<>>, rng |-> g ]
        ELSE
        CHOOSE response \in {
        LET behavior_data == demo_data.behavior
            risk_scores == ("7_day" :> demo_data.risk_7day)
                           @@ ("30_day" :> demo_data.risk_30day)
            risk_level == get_risk_level(risk_scores)
            intervention_strategy ==
                get_intervention_strategy(risk_scores["7_day"], risk_scores["30_day"])
            risk_predictions ==
                ("7_day" :>
                    [ window_days |-> 7,
                      risk_score |-> Round3(risk_scores["7_day"]),
                      confidence |-> F0_85,
                      predicted_behaviors |->
                          IF FGt(risk_scores["7_day"], F0_5)
                          THEN <<"Frequency increase likely">> ELSE <<>> ])
                @@
                ("30_day" :>
                    [ window_days |-> 30,
                      risk_score |-> Round3(risk_scores["30_day"]),
                      confidence |-> F0_75,
                      predicted_behaviors |->
                          IF FGt(risk_scores["30_day"], F0_6)
                          THEN <<"Potential loss spiral">> ELSE <<>> ])
            calls == <<"predict_risk", "get_risk_level", "get_intervention_strategy">>
            valid == /\ ValidBehaviorSummary(behavior_data)
                     /\ \A w \in DOMAIN risk_predictions :
                            ValidRiskPrediction(risk_predictions[w])
                     /\ risk_level \in RiskLevels
        IN  IF ~valid
            THEN [ status |-> 500, detail |-> <<"ValidationError">>,
                   calls |-> calls, rng |-> pr.rng ]
            ELSE [ status |-> 200,
                   user_id |-> user_id,
                   account_age_days |-> 14,
                   behavior_summary |-> behavior_data,
                   risk_predictions |-> risk_predictions,
                   overall_risk_level |-> risk_level,
                   risk_factors |-> pr.risk_factors,
                   intervention_strategy |-> intervention_strategy,
                   metadata |-> [ model_version |-> "1.0.0",
                                  assessment_type |-> "new_user_14_day" ],
                   calls |-> calls, rng |-> pr.rng ]
        : pr \in {predict_risk(ms, names, salt, g, demo_data.behavior)} } : TRUE

\* The requests get_demo_overview makes, in order, and their labels.
OverviewUsers ==
    << <<"immediate_crisis", 12345>>, <<"slow_burn", 67890>>,
       <<"moderate_risk", 23456>>, <<"controlled", 34567>> >>

RECURSIVE OverviewLoop(_, _, _, _, _, _)
OverviewLoop(ms, names, salt, g, i, acc) ==
    IF i > Len(OverviewUsers) THEN [patterns |-> acc, rng |-> g]
    ELSE CHOOSE r \in
             { OverviewLoop(ms, names, salt, a.rng, i + 1, (OverviewUsers[i][1] :> a) @@ acc) :
                 a \in {assess_user_risk(ms, names, salt, g, OverviewUsers[i][2])} } : TRUE

get_demo_overview(ms, names, salt, g) == OverviewLoop(ms, names, salt, g, 1, <<>>)

\* str.upper() on the path segments the model sends.
Upper(s) ==
    CASE s = "high" -> "HIGH"
      [] s = "medium" -> "MEDIUM"
      [] s = "low" -> "LOW"
      [] s = "slowburn" -> "SLOWBURN"
      [] s = "SlowBurn" -> "SLOWBURN"
      [] s = "critical" -> "CRITICAL"
      [] OTHER -> s

\* Mutant: the ids of the MEDIUM and the LOW example exchanged.
demo_mapping_swapped ==
    ("HIGH" :> 12345) @@ ("MEDIUM" :> 34567) @@ ("LOW" :> 23456) @@ ("SLOWBURN" :> 67890)

demo_mapping ==
    ("HIGH" :> 12345) @@ ("MEDIUM" :> 23456) @@ ("LOW" :> 34567) @@ ("SLOWBURN" :> 67890)

get_demo_example(ms, names, salt, g, risk_level) ==
    IF Upper(risk_level) \notin DOMAIN demo_mapping
    THEN [ status |-> 400,
           detail |-> <<"Risk level must be one of: high, medium, low, slowburn">>,
           calls |-> <<>>, rng |-> g ]
    ELSE assess_user_risk(ms, names, salt, g, demo_mapping[Upper(risk_level)])

(***************************************************************************)
(* Inputs of the model.                                                    *)
(***************************************************************************)

\* Largest per-process hash key and largest initial generator state tried.
MaxSalt == 1
MaxEntropy == 1
\* Number of parallel callers of predict_risk.
NThreads == 2

Salts == 0..MaxSalt
Entropy == 0..MaxEntropy
Threads == 1..NThreads

Base == DEMO_USERS[12345].behavior

\* Behaviors on, below and above the threshold of every risk-factor rule.
FactorGrid ==
    { [Base EXCEPT !.median_loss_gap_minutes = g, !.total_deposits = d,
                   !.late_night_percentage = l, !.session_variance = v,
                   !.loss_rate = r] :
        g \in {F(23, 10), F5}, d \in {20, 21},
        l \in {F0_4, F(45, 100)}, v \in {F2, F(32, 10)},
        r \in {F0_8, F(82, 100)} }

\* Behaviors at the edges of the feature derivations.
EdgeBehaviors ==
    { [Base EXCEPT !.betting_days = 0], [Base EXCEPT !.betting_days = 1],
      [Base EXCEPT !.total_bets = 0, !.total_deposits = 0],
      [Base EXCEPT !.median_loss_gap_minutes = Zero],
      [Base EXCEPT !.median_loss_gap_minutes = ToFloat(4)],
      [Base EXCEPT !.median_loss_gap_minutes = Inf],
      [Base EXCEPT !.avg_bet_amount = Zero, !.total_loss_amount = Zero,
                   !.loss_rate = Zero, !.late_night_percentage = Zero,
                   !.session_variance = Zero] }

DemoBehaviors == {DEMO_USERS[u].behavior : u \in DOMAIN DEMO_USERS}

Behaviors == DemoBehaviors \cup FactorGrid \cup EdgeBehaviors

\* Scores, in thousandths, around every threshold of the classifiers.
ScoreMills ==
    { 0, 98, 125, 200, 235, 389, 399, 400, 401, 432, 500, 599,
      600, 601, 650, 699, 700, 701, 712, 721, 750, 847, 900, 1000 }
Scores == {F(k, 1000) : k \in ScoreMills}

\* Non-empty score sets: one or both windows.
ScoreSets ==
    { ("7_day" :> a) @@ ("30_day" :> b) : a \in Scores, b \in Scores }
    \cup { ("7_day" :> a) : a \in Scores } \cup { ("30_day" :> a) : a \in Scores }

UserIds == DOMAIN DEMO_USERS \cup {0, 11111, 99999}
PathLevels == {"high", "HIGH", "medium", "low", "slowburn", "SlowBurn", "critical", "all"}

\* Gaps from zero to infinity, some too small for 1 + gap / 5 to exceed 1.
Gaps ==
    { Zero, FPow2(-20), FPow2(-16), F(1, 100), F(1, 2), F(23, 10), ToFloat(4),
      F5, F(455, 10), ToFloat(180), ToFloat(480), ToFloat(1000000), Inf }

\* Lists of feature names with a name the extractor does not compute put
\* before position p, or in place of the name at position p.
Unknown == "early_late_night_pct"
InsertAt(names, p) ==
    [i \in 1..(Len(names) + 1) |->
        IF i < p THEN names[i] ELSE IF i = p THEN Unknown ELSE names[i - 1]]
ReplaceAt(names, p) == [names EXCEPT ![p] = Unknown]
NameLists ==
    {FeatureNames}
    \cup {InsertAt(FeatureNames, p) : p \in 1..(Len(FeatureNames) + 1)}
    \cup {ReplaceAt(FeatureNames, p) : p \in 1..Len(FeatureNames)}
    \cup {InsertAt(InsertAt(FeatureNames, 1), 9)}

(***************************************************************************)
(* State.                                                                  *)
(***************************************************************************)

VARIABLES
    pstate,         \* "importing": main.py not yet imported; "serving"; "crashed"
    models,         \* RiskEngine.models, in insertion order
    feature_names,  \* RiskEngine.feature_names
    log,            \* the lines printed
    rng,            \* the state of the process-wide generator np.random
    hashSalt,       \* the process's key for hash(str)
    ret,            \* the last call made by a sequential caller and its result
    threads         \* the parallel callers of predict_risk

vars == <<pstate, models, feature_names, log, rng, hashSalt, ret, threads>>

NoCall == [op |-> "none", arg |-> <<>>, out |-> <<>>]
Idle == [pc |-> "idle", b |-> None, X |-> <<>>, i |-> 0, scores |-> <<>>, out |-> <<>>]

\* Before main.py runs `risk_engine = RiskEngine()`.
Init ==
    /\ pstate = "importing"
    /\ models = <<>>
    /\ feature_names = <<>>
    /\ log = <<>>
    /\ rng \in Entropy
    /\ hashSalt \in Salts
    /\ ret = NoCall
    /\ threads = [t \in Threads |-> Idle]

\* Mutant: _load_models opens the file without testing that it exists, so
\* a missing artifact raises like a corrupt one.
Construct_no_fallback(artifact) ==
    /\ pstate = "importing"
    /\ IF artifact # "valid"
       THEN /\ pstate' = "crashed"
            /\ ret' = [op |-> "__init__", arg |-> artifact, out |-> "raised"]
            /\ UNCHANGED <<models, feature_names, log>>
       ELSE /\ pstate' = "serving"
            /\ models' = TrainedModels
            /\ log' = log
            /\ feature_names' = FeatureNames
            /\ ret' = [op |-> "__init__", arg |-> artifact, out |-> "ok"]
    /\ UNCHANGED <<rng, hashSalt, threads>>

\* RiskEngine.__init__ with _load_models, for each state of the artifact.
Construct(artifact) ==
    /\ pstate = "importing"
    /\ IF artifact = "corrupt"
       THEN /\ pstate' = "crashed"
            /\ ret' = [op |-> "__init__", arg |-> artifact, out |-> "raised"]
            /\ UNCHANGED <<models, feature_names, log>>
       ELSE /\ pstate' = "serving"
            /\ models' = IF artifact = "valid" THEN TrainedModels ELSE MockModels
            /\ log' = IF artifact = "valid" THEN log ELSE Append(log, WarningLine)
            /\ feature_names' = FeatureNames
            /\ ret' = [op |-> "__init__", arg |-> artifact, out |-> "ok"]
    /\ UNCHANGED <<rng, hashSalt, threads>>

PrepareFeatures(b) ==
    /\ pstate = "serving"
    /\ ret' = [op |-> "prepare_features", arg |-> b,
               out |-> prepare_features(feature_names, b)]
    /\ UNCHANGED <<pstate, models, feature_names, log, rng, hashSalt, threads>>

PredictRisk(b) ==
    /\ pstate = "serving"
    /\ \E r \in {predict_risk(models, feature_names, hashSalt, rng, b)} :
           /\ ret' = [op |-> "predict_risk", arg |-> b,
                      out |-> <<r.risk_scores, r.risk_factors>>]
           /\ rng' = r.rng
    /\ UNCHANGED <<pstate, models, feature_names, log, hashSalt, threads>>

GetRiskLevel(scores) ==
    /\ pstate = "serving"
    /\ ret' = [op |-> "get_risk_level", arg |-> scores, out |-> get_risk_level(scores)]
    /\ UNCHANGED <<pstate, models, feature_names, log, rng, hashSalt, threads>>

GetInterventionStrategy(risk_7day, risk_30day) ==
    /\ pstate = "serving"
    /\ ret' = [op |-> "get_intervention_strategy", arg |-> <<risk_7day, risk_30day>>,
               out |-> get_intervention_strategy(risk_7day, risk_30day)]
    /\ UNCHANGED <<pstate, models, feature_names, log, rng, hashSalt, threads>>

AssessUserRisk(user_id) ==
    /\ pstate = "serving"
    /\ \E a \in {assess_user_risk(models, feature_names, hashSalt, rng, user_id)} :
           /\ ret' = [op |-> "assess_user_risk", arg |-> user_id, out |-> a]
           /\ rng' = a.rng
    /\ UNCHANGED <<pstate, models, feature_names, log, hashSalt, threads>>

GetDemoOverview ==
    /\ pstate = "serving"
    /\ \E o \in {get_demo_overview(models, feature_names, hashSalt, rng)} :
           /\ ret' = [op |-> "get_demo_overview", arg |-> <<>>, out |-> o.patterns]
           /\ rng' = o.rng
    /\ UNCHANGED <<pstate, models, feature_names, log, hashSalt, threads>>

GetDemoExample(risk_level) ==
    /\ pstate = "serving"
    /\ \E a \in {get_demo_example(models, feature_names, hashSalt, rng, risk_level)} :
           /\ ret' = [op |-> "get_demo_example", arg |-> risk_level, out |-> a]
           /\ rng' = a.rng
    /\ UNCHANGED <<pstate, models, feature_names, log, hashSalt, threads>>

\* The process: the engine is built once, then its handlers and methods run
\* one at a time (the handlers are coroutines that never await).
Next ==
    \/ \E a \in Artifacts : Construct(a)
    \/ \E b \in Behaviors : PredictRisk(b)
    \/ \E u \in UserIds : AssessUserRisk(u)
    \/ GetDemoOverview
    \/ \E l \in PathLevels : GetDemoExample(l)

Spec == Init /\ [][Next]_vars

\* The two classifiers as functions of the scores alone.
InitServing ==
    /\ pstate = "serving"
    /\ models = MockModels
    /\ feature_names = FeatureNames
    /\ log = <<WarningLine>>
    /\ rng = 0
    /\ hashSalt = 0
    /\ ret = NoCall
    /\ threads = [t \in Threads |-> Idle]

NextClassify ==
    \/ \E s \in ScoreSets : GetRiskLevel(s)
    \/ \E a \in Scores, b \in Scores : GetInterventionStrategy(a, b)

SpecClassify == InitServing /\ [][NextClassify]_vars

\* The feature extractor over behaviors and lists of feature names.
InitNames ==
    /\ pstate = "serving"
    /\ models = MockModels
    /\ feature_names \in NameLists
    /\ log = <<WarningLine>>
    /\ rng = 0
    /\ hashSalt = 0
    /\ ret = NoCall
    /\ threads = [t \in Threads |-> Idle]

NextFeatures == \E b \in Behaviors : PrepareFeatures(b)

SpecFeatures == InitNames /\ [][NextFeatures]_vars

\* The extractor on two behaviors that differ in the gap alone.
WithGap(g) == [Base EXCEPT !.median_loss_gap_minutes = g]

InitGaps == InitServing

PrepareFeaturesPair(g1, g2) ==
    /\ pstate = "serving"
    /\ ret.op = "none"
    /\ ret' = [op |-> "prepare_features_pair", arg |-> <<g1, g2>>,
               out |-> << prepare_features(feature_names, WithGap(g1)),
                          prepare_features(feature_names, WithGap(g2)) >>]
    /\ UNCHANGED <<pstate, models, feature_names, log, rng, hashSalt, threads>>

NextGaps == \E g1 \in Gaps, g2 \in Gaps : PrepareFeaturesPair(g1, g2)

SpecGaps == InitGaps /\ [][NextGaps]_vars

(***************************************************************************)
(* Parallel callers of predict_risk on the fallback models.  A caller's    *)
(* steps are those between which another thread can run: the call of       *)
(* np.random.seed and the call of np.random.beta are two calls.            *)
(***************************************************************************)

ParBehaviors == DemoBehaviors

InitPar ==
    /\ pstate = "serving"
    /\ models = MockModels
    /\ feature_names = FeatureNames
    /\ log = <<WarningLine>>
    /\ rng \in Entropy
    /\ hashSalt \in Salts
    /\ ret = NoCall
    /\ threads = [t \in Threads |-> Idle]

\* predict_risk is entered: the features are prepared (local to the call).
ParCall(t, b) ==
    /\ threads[t].pc = "idle"
    /\ threads' = [threads EXCEPT ![t] =
           [pc |-> "seed", b |-> b, X |-> prepare_features(feature_names, b),
            i |-> 1, scores |-> <<>>, out |-> <<>>]]
    /\ UNCHANGED <<pstate, models, feature_names, log, rng, hashSalt, ret>>

\* predict_proba, line 35: np.random.seed(hash(str(X[0])) % 100)
ParSeed(t) ==
    /\ threads[t].pc = "seed"
    /\ rng' = MockSeed(hashSalt, threads[t].X)
    /\ threads' = [threads EXCEPT ![t].pc = "draw"]
    /\ UNCHANGED <<pstate, models, feature_names, log, hashSalt, ret>>

\* predict_proba, lines 36-37, and lines 73-74 of the loop.
ParDraw(t) ==
    /\ threads[t].pc = "draw"
    /\ LET d == MockDraw(rng)
           th == threads[t]
       IN  /\ rng' = d.rng
           /\ threads' = [threads EXCEPT ![t] =
                  [th EXCEPT !.scores = (models[th.i].window :> d.proba[2]) @@ th.scores,
                             !.i = th.i + 1,
                             !.pc = IF th.i + 1 > Len(models) THEN "factors" ELSE "seed"]]
    /\ UNCHANGED <<pstate, models, feature_names, log, hashSalt, ret>>

\* predict_risk, lines 76-89: the risk factors, and the return.
ParReturn(t) ==
    /\ threads[t].pc = "factors"
    /\ threads' = [threads EXCEPT ![t].pc = "done",
                                  ![t].out = <<threads[t].scores, RiskFactors(threads[t].b)>>]
    /\ UNCHANGED <<pstate, models, feature_names, log, rng, hashSalt, ret>>

NextPar ==
    \/ \E t \in Threads, b \in ParBehaviors : ParCall(t, b)
    \/ \E t \in Threads : ParSeed(t)
    \/ \E t \in Threads : ParDraw(t)
    \/ \E t \in Threads : ParReturn(t)

SpecPar == InitPar /\ [][NextPar]_vars

(***************************************************************************)
(* The claims.                                                             *)
(***************************************************************************)

\* C1: get_intervention_strategy returns, for every score pair, the outcome
\* of the first rule that matches, in the order (1) both scores > 0.7:
\* IMMEDIATE_CRISIS/URGENT, (2) 7-day < 0.4 and 30-day > 0.6:
\* SLOW_BURN/PREVENTIVE, (3) either score in [0.4, 0.7]:
\* MODERATE_RISK/MONITOR, (4) otherwise CONTROLLED/STANDARD; each pattern
\* comes with its one urgency and its fixed list of 4, 4, 3 and 2 actions.
C1_Rules(a, b) ==
    << FGt(a, F0_7) /\ FGt(b, F0_7),
       FLt(a, F0_4) /\ FGt(b, F0_6),
       (~FLt(a, F0_4) /\ ~FGt(a, F0_7)) \/ (~FLt(b, F0_4) /\ ~FGt(b, F0_7)),
       TRUE >>
C1_Table ==
    << <<"IMMEDIATE_CRISIS", "URGENT",
         <<"Immediate deposit limit", "Mandatory cooling period",
           "Direct phone contact", "Emergency resources">>, 4>>,
       <<"SLOW_BURN", "PREVENTIVE",
         <<"Educational emails", "Voluntary limit suggestions",
           "Progress tracking tools", "Scheduled check-ins">>, 4>>,
       <<"MODERATE_RISK", "MONITOR",
         <<"In-app warnings", "Session reminders", "Self-assessment tools">>, 3>>,
       <<"CONTROLLED", "STANDARD",
         <<"Continue monitoring", "Positive reinforcement">>, 2>> >>
C1_FirstMatch(a, b) ==
    CHOOSE k \in 1..4 : C1_Rules(a, b)[k] /\ \A j \in 1..(k - 1) : ~C1_Rules(a, b)[j]
C1_StrategyIsFirstMatch ==
    ret.op = "get_intervention_strategy" =>
        LET row == C1_Table[C1_FirstMatch(ret.arg[1], ret.arg[2])]
        IN  /\ ret.out.pattern = row[1]
            /\ ret.out.urgency = row[2]
            /\ ret.out.actions = row[3]
            /\ Len(ret.out.actions) = row[4]
C1_Witness ==
    /\ ret.op = "get_intervention_strategy"
    /\ ret.arg = <<F(500, 1000), F(900, 1000)>>
    /\ ret.out.pattern = "MODERATE_RISK"

\* C2: get_risk_level of a non-empty score set with maximum m is HIGH when
\* m > 0.7, MEDIUM when 0.4 < m <= 0.7 and LOW otherwise (m = 0.4 is LOW,
\* m = 0.7 is MEDIUM), and is never CRITICAL.
C2_LevelByMaximum ==
    ret.op = "get_risk_level" =>
        LET s == ret.arg
            above(t) == \E w \in DOMAIN s : FGt(s[w], t)
        IN  /\ ret.out \in {"LOW", "MEDIUM", "HIGH"}
            /\ (ret.out = "HIGH") <=> above(F0_7)
            /\ (ret.out = "MEDIUM") <=> (above(F0_4) /\ ~above(F0_7))
            /\ (ret.out = "LOW") <=> ~above(F0_4)
            /\ ret.out # "CRITICAL"
C2_Witness ==
    /\ ret.op = "get_risk_level"
    /\ ret.arg = ("7_day" :> F(400, 1000)) @@ ("30_day" :> F(399, 1000))
    /\ ret.out = "LOW"

\* C3: the risk factors predict_risk returns hold each of the five factor
\* strings exactly when its predicate on the raw behavior holds, without
\* duplicates, in the fixed rule order whichever subset fires.
C3_Factors ==
    << "Immediate loss chasing behavior", "High deposit frequency",
       "Excessive late-night gambling", "Erratic session patterns",
       "Very high loss rate" >>
C3_Fires(b, k) ==
    CASE k = 1 -> FLt(b.median_loss_gap_minutes, ToFloat(5))
      [] k = 2 -> b.total_deposits > 20
      [] k = 3 -> FGt(b.late_night_percentage, F(4, 10))
      [] k = 4 -> FGt(b.session_variance, ToFloat(2))
      [] k = 5 -> FGt(b.loss_rate, F(8, 10))
C3_FactorsMatchRules ==
    ret.op = "predict_risk" =>
        LET fs == ret.out[2]
            pos(k) == {i \in DOMAIN fs : fs[i] = C3_Factors[k]}
        IN  /\ \A i \in DOMAIN fs : \E k \in 1..5 : fs[i] = C3_Factors[k]
            /\ \A k \in 1..5 :
                   Cardinality(pos(k)) = IF C3_Fires(ret.arg, k) THEN 1 ELSE 0
            /\ \A j, k \in 1..5 :
                   j < k => \A p \in pos(j), q \in pos(k) : p < q
C3_Witness ==
    /\ ret.op = "predict_risk"
    /\ ret.arg = DEMO_USERS[12345].behavior
    /\ ret.out[2] = C3_Factors

\* C4: with the engine's own feature names, prepare_features returns
\* exactly 14 values, in the fixed slot order, each equal to its derivation
\* from the behavior; the vector is a function of the behavior alone.
C4_FourteenSlots ==
    (ret.op = "prepare_features" /\ feature_names = FeatureNames) =>
        LET b == ret.arg
            days == IF b.betting_days >= 1 THEN b.betting_days ELSE 1
        IN  /\ Len(ret.out) = 14
            /\ ret.out[1] = ToFloat(b.total_bets)
            /\ ret.out[2] = b.avg_bet_amount
            /\ ret.out[3] = FMul[b.avg_bet_amount, F(1, 2)]
            /\ ret.out[4] = b.loss_rate
            /\ ret.out[5] = b.total_loss_amount
            /\ ret.out[6] = ToFloat(b.betting_days)
            /\ ret.out[7] = F(b.total_bets, days)
            /\ ret.out[8] = b.median_loss_gap_minutes
            /\ ret.out[9] = FDiv[F1, FAdd[F1, FDiv[b.median_loss_gap_minutes, ToFloat(5)]]]
            /\ ret.out[10] = ToFloat(2 * b.betting_days)
            /\ ret.out[11] = ToFloat(45)
            /\ ret.out[12] = b.session_variance
            /\ ret.out[13] = ToFloat(b.total_deposits)
            /\ ret.out[14] = b.avg_deposit
C4_Witness ==
    /\ ret.op = "prepare_features"
    /\ feature_names = FeatureNames
    /\ ret.arg = DEMO_USERS[12345].behavior
    /\ ret.out[3] = F(771625, 1000)
    /\ ret.out[7] = F(205, 10)
    /\ ret.out[10] = ToFloat(28)

\* C5: with several callers running predict_risk in parallel on the
\* fallback models, every caller receives, for each window, the probability
\* a lone sequential call returns for the same feature vector.
C5_SequentialProba(X) == MockDraw(MockSeed(hashSalt, X)).proba[2]
C5_ParallelCallersSeeSequentialProba ==
    \A t \in Threads :
        threads[t].pc = "done" =>
            \A w \in DOMAIN threads[t].out[1] :
                threads[t].out[1][w] = C5_SequentialProba(threads[t].X)

\* C6: with the model artifact missing, construction succeeds, prints only
\* the warning and leaves a fallback model for each of '7_day' and
\* '30_day'; every later predict_risk returns a score for exactly these two
\* windows, each a probability in [0, 1].
C6_MissingArtifactFallsBack ==
    /\ (ret.op = "__init__" /\ ret.arg = "missing") =>
           /\ ret.out = "ok"
           /\ pstate = "serving"
           /\ log = <<WarningLine>>
    /\ log # <<>> =>
           /\ pstate = "serving"
           /\ log = <<WarningLine>>
           /\ Windows(models) = {"7_day", "30_day"}
           /\ Len(models) = 2
           /\ \A i \in DOMAIN models : models[i].kind = "mock"
           /\ ret.op = "predict_risk" =>
                  /\ DOMAIN ret.out[1] = {"7_day", "30_day"}
                  /\ \A w \in DOMAIN ret.out[1] : InUnit(ret.out[1][w])
C6_Witness ==
    /\ log = <<WarningLine>>
    /\ ret.op = "predict_risk"
    /\ DOMAIN ret.out[1] = {"7_day", "30_day"}
    /\ \A w \in DOMAIN ret.out[1] : FLt(Zero, ret.out[1][w]) /\ FLt(ret.out[1][w], F1)

\* C7: when the list of feature names holds a name the extractor does not
\* compute, prepare_features still returns a vector as long as the list,
\* with 0 in that name's slot and every other slot at its derived value.
C7_SlotOf(name) == CHOOSE k \in DOMAIN FeatureNames : FeatureNames[k] = name
C7_UnknownNameDefaultsToZero ==
    ret.op = "prepare_features" =>
        /\ Len(ret.out) = Len(feature_names)
        /\ \A i \in DOMAIN feature_names :
               IF \E k \in DOMAIN FeatureNames : FeatureNames[k] = feature_names[i]
               THEN ret.out[i] =
                        prepare_features(FeatureNames, ret.arg)[C7_SlotOf(feature_names[i])]
               ELSE ret.out[i] = Zero
C7_Witness ==
    /\ ret.op = "prepare_features"
    /\ Len(feature_names) = 15
    /\ feature_names[9] = Unknown
    /\ ret.arg = DEMO_USERS[12345].behavior
    /\ ret.out[9] = Zero
    /\ ret.out[7] = F(205, 10)
    /\ ret.out[10] = ImmediateRebetPct(F(23, 10))
    /\ Len(ret.out) = 15

\* C8, as stated: immediate_rebet_pct is strictly decreasing in the gap
\* over all gaps >= 0, lies in (0, 1], is 1 at gap 0, and its divisor is
\* never zero.
C8_Pct(v) == v[9]
C8_Divisor(g) == FAdd[F1, FDiv[g, ToFloat(5)]]
C8_StrictlyDecreasing ==
    ret.op = "prepare_features_pair" =>
        LET g1 == ret.arg[1]
            g2 == ret.arg[2]
            p1 == C8_Pct(ret.out[1])
            p2 == C8_Pct(ret.out[2])
        IN  /\ FLt(g1, g2) => FGt(p1, p2)
            /\ FLt(g2, g1) => FGt(p2, p1)
            /\ FLt(Zero, p1) /\ FLe(p1, F1)
            /\ FLt(Zero, p2) /\ FLe(p2, F1)
            /\ g1 = Zero => p1 = F1
            /\ ~IsZero(C8_Divisor(g1)) /\ ~IsZero(C8_Divisor(g2))

\* C8, amended: immediate_rebet_pct never increases with the gap (two gaps
\* can give the same value), lies in (0, 1] for every finite gap and is 0
\* for an infinite one, is 1 at gap 0, and its divisor is at least 1.
C8_NonIncreasing ==
    ret.op = "prepare_features_pair" =>
        LET g1 == ret.arg[1]
            g2 == ret.arg[2]
            p1 == C8_Pct(ret.out[1])
            p2 == C8_Pct(ret.out[2])
        IN  /\ FLt(g1, g2) => FLe(p2, p1)
            /\ FLt(g2, g1) => FLe(p1, p2)
            /\ ~IsInf(g1) => (FLt(Zero, p1) /\ FLe(p1, F1))
            /\ IsInf(g1) => p1 = Zero
            /\ g1 = Zero => p1 = F1
            /\ FLe(F1, C8_Divisor(g1)) /\ FLe(F1, C8_Divisor(g2))
C8_Witness ==
    /\ ret.op = "prepare_features_pair"
    /\ ret.arg = <<Zero, FPow2(-20)>>
    /\ C8_Pct(ret.out[1]) = F1
    /\ C8_Pct(ret.out[2]) = F1

\* C9: for each demo user, assess_user_risk yields the pattern and level
\* the demo endpoints label it with (12345: IMMEDIATE_CRISIS, HIGH; 67890:
\* SLOW_BURN; 23456: MODERATE_RISK, MEDIUM; 34567: CONTROLLED, LOW); any
\* other user id is answered 404 before any classification runs.
C9_Pattern ==
    (12345 :> "IMMEDIATE_CRISIS") @@ (67890 :> "SLOW_BURN")
    @@ (23456 :> "MODERATE_RISK") @@ (34567 :> "CONTROLLED")
C9_Level == (12345 :> "HIGH") @@ (23456 :> "MEDIUM") @@ (34567 :> "LOW")
C9_Labelled(resp, u) ==
    /\ resp.status = 200
    /\ resp.user_id = u
    /\ resp.intervention_strategy.pattern = C9_Pattern[u]
    /\ u \in DOMAIN C9_Level => resp.overall_risk_level = C9_Level[u]
C9_OverviewLabel ==
    ("immediate_crisis" :> 12345) @@ ("slow_burn" :> 67890)
    @@ ("moderate_risk" :> 23456) @@ ("controlled" :> 34567)
C9_ExampleLabel ==
    ("HIGH" :> 12345) @@ ("MEDIUM" :> 23456) @@ ("LOW" :> 34567) @@ ("SLOWBURN" :> 67890)
C9_DemoUsersMatchLabels ==
    /\ ret.op = "assess_user_risk" =>
           IF ret.arg \in DOMAIN C9_Pattern
           THEN C9_Labelled(ret.out, ret.arg)
           ELSE ret.out.status = 404 /\ ret.out.calls = <<>>
    /\ ret.op = "get_demo_overview" =>
           /\ DOMAIN ret.out = DOMAIN C9_OverviewLabel
           /\ \A l \in DOMAIN ret.out : C9_Labelled(ret.out[l], C9_OverviewLabel[l])
    /\ ret.op = "get_demo_example" =>
           \A l \in DOMAIN C9_ExampleLabel :
               Upper(ret.arg) = l => C9_Labelled(ret.out, C9_ExampleLabel[l])
C9_Witness ==
    /\ ret.op = "assess_user_risk"
    /\ ret.arg = 67890
    /\ ret.out.status = 200
    /\ ret.out.intervention_strategy.pattern = "SLOW_BURN"
    /\ ret.out.calls = <<"predict_risk", "get_risk_level", "get_intervention_strategy">>

\* C10: whenever get_risk_level of the pair {7_day, 30_day} is HIGH,
\* get_intervention_strategy of the same pair is not CONTROLLED/STANDARD.
C10_HighIsNeverControlled ==
    ret.op = "get_intervention_strategy" =>
        (get_risk_level(("7_day" :> ret.arg[1]) @@ ("30_day" :> ret.arg[2])) = "HIGH"
            => /\ ret.out.pattern # "CONTROLLED"
               /\ ret.out.urgency # "STANDARD")

\* C11: on the fallback models, predict_risk returns the same probability
\* for the '7_day' and the '30_day' window, and the intervention strategy
\* of the returned scores is never SLOW_BURN.  C11_WindowsAgree states it of
\* one returned score set; C11_FallbackWindowsAgree states it of every
\* return of predict_risk, whichever callers ran beside it.
C11_WindowsAgree(scores) ==
    /\ DOMAIN scores = {"7_day", "30_day"}
    /\ scores["7_day"] = scores["30_day"]
    /\ get_intervention_strategy(scores["7_day"], scores["30_day"]).pattern # "SLOW_BURN"
C11_FallbackWindowsAgree ==
    \A t \in Threads :
        (models = MockModels /\ threads[t].pc = "done") =>
            C11_WindowsAgree(threads[t].out[1])
\* The same of calls that run one at a time, each to its return before the
\* next begins.
C11_LoneCallWindowsAgree ==
    (models = MockModels /\ ret.op = "predict_risk") => C11_WindowsAgree(ret.out[1])
C11_LoneCallReturned ==
    /\ models = MockModels
    /\ ret.op = "predict_risk"
    /\ ret.arg = DEMO_USERS[67890].behavior
    /\ ret.out[1]["7_day"] = ret.out[1]["30_day"]
\* A caller that ran beside another and received a SLOW_BURN score pair.
C11_ParallelSlowBurnUnreached ==
    \A t \in Threads :
        threads[t].pc = "done" =>
            get_intervention_strategy(threads[t].out[1]["7_day"],
                                      threads[t].out[1]["30_day"]).pattern # "SLOW_BURN"

====
